---------------------------- MODULE Spec2Model ----------------------------
(***************************************************************************)
(* Model of the go-argon package (src/argon.go): DefaultParams, Hash,      *)
(* HashWithParams, Verify and decodeHash, together with the text           *)
(* conversions they rely on (fmt.Sprintf / fmt.Sscanf, strings.Split,      *)
(* base64.RawStdEncoding).                                                 *)
(*                                                                         *)
(* A Go string is a sequence of one-character strings; a []byte is a       *)
(* sequence of numbers in 0..255.                                          *)
(***************************************************************************)
EXTENDS Integers, Sequences, FiniteSets, TLC

VARIABLES
    op,         \* the call made last: "none", "DefaultParams", "Hash",
                \* "HashWithParams", "Verify" or "roundtrip"
    numCPU,     \* runtime.NumCPU() as seen by the last DefaultParams
    password,   \* password argument of the last Hash / HashWithParams
    params,     \* *Params: argument of HashWithParams, result of DefaultParams
    salt,       \* salt of the last hashing call
    hash,       \* derived key of the last hashing call
    encoded,    \* the PHC string in hand: result of the last hashing call
    candidate,  \* password argument of the last Verify
    decoded,    \* what decodeHash returned inside the last Verify
    matched,    \* bool result of the last Verify
    err,        \* error result of the last call
    panicked,   \* the last call did not return: the KDF panicked
    kdfCalls,   \* the KDF invocations of the last call, in order
    trace,      \* the steps of the last call, in order
    examined    \* byte positions the key comparison of the last call read

vars == <<op, numCPU, password, params, salt, hash, encoded, candidate,
          decoded, matched, err, panicked, kdfCalls, trace, examined>>

---------------------------------------------------------------------------
(* Bounds of the model.                                                    *)

\* Memory and Iterations of a caller's Params range over 0..MaxCost.
MaxCost == 1
\* SaltLength of a caller's Params ranges over 0..MaxSaltLen.
MaxSaltLen == 2
\* KeyLength of a caller's Params ranges over 0..MaxKeyLen.
MaxKeyLen == 2

---------------------------------------------------------------------------
(* Program constants.                                                      *)

ModeArgon2id == <<"a", "r", "g", "o", "n", "2", "i", "d">>
ModeArgon2i == <<"a", "r", "g", "o", "n", "2", "i">>

DefaultMemory == 65536
DefaultIterations == 1
DefaultParallelism == 4
DefaultSaltLength == 16
DefaultKeyLength == 32

\* argon2.Version of golang.org/x/crypto/argon2 (0x13).
Version == 19

ErrNil == "nil"
ErrInvalidHash == "ErrInvalidHash"
ErrIncompatibleVersion == "ErrIncompatibleVersion"
ErrUnsupportedMode == "ErrUnsupportedMode"
\* base64.CorruptInputError, returned by DecodeString.
ErrCorruptInput == "base64.CorruptInputError"
\* whatever error crypto/rand.Read returns.
ErrRand == "rand.Read error"

\* The zero *Params (nil) and the zero Params value.
NilParams ==
    [Memory |-> 0, Iterations |-> 0, Parallelism |-> 0,
     SaltLength |-> 0, KeyLength |-> 0, Mode |-> <<>>]

---------------------------------------------------------------------------
(* Integer conversions.                                                    *)

\* uint8(n): the conversion keeps the low 8 bits.
Uint8 == 256
ToUint8(n) == n % Uint8

DigitChars == <<"0", "1", "2", "3", "4", "5", "6", "7", "8", "9">>

IsDigit(c) == \E i \in 1..10 : DigitChars[i] = c

DigitVal(c) == (CHOOSE i \in 1..10 : DigitChars[i] = c) - 1

\* %d of fmt.Sprintf for an unsigned value: decimal, no leading zeros.
RECURSIVE FormatUint(_)
FormatUint(n) ==
    IF n < 10 THEN <<DigitChars[n + 1]>>
    ELSE FormatUint(n \div 10) \o <<DigitChars[(n % 10) + 1]>>

\* The digits of the largest value of each width fmt.Sscanf stores into.
MaxDigits(bitSize, signed) ==
    CASE bitSize = 8 -> <<2, 5, 5>>
      [] bitSize = 32 -> <<4, 2, 9, 4, 9, 6, 7, 2, 9, 5>>
      [] bitSize = 64 /\ signed ->
            <<9, 2, 2, 3, 3, 7, 2, 0, 3, 6, 8, 5, 4, 7, 7, 5, 8, 0, 7>>
      [] OTHER ->
            <<1, 8, 4, 4, 6, 7, 4, 4, 0, 7, 3, 7, 0, 9, 5, 5, 1, 6, 1, 5>>

RECURSIVE StripZeros(_)
StripZeros(ds) ==
    IF Len(ds) > 1 /\ ds[1] = 0 THEN StripZeros(Tail(ds)) ELSE ds

RECURSIVE LexLeq(_, _)
LexLeq(a, b) ==
    IF a = <<>> THEN TRUE
    ELSE IF a[1] # b[1] THEN a[1] < b[1]
    ELSE LexLeq(Tail(a), Tail(b))

\* strconv.ParseInt / ParseUint range check followed by Sscanf's own
\* "integer overflow on token" check: the digits denote a value of the width.
FitsBits(ds, bitSize, signed) ==
    LET s == StripZeros(ds)
        m == MaxDigits(bitSize, signed)
    IN  \/ Len(s) < Len(m)
        \/ Len(s) = Len(m) /\ LexLeq(s, m)

RECURSIVE DigitsValue(_)
DigitsValue(ds) ==
    IF ds = <<>> THEN 0
    ELSE DigitsValue(SubSeq(ds, 1, Len(ds) - 1)) * 10 + ds[Len(ds)]

---------------------------------------------------------------------------
(* fmt.Sscanf.                                                             *)

\* advance over literal text of the format: every character must be there.
MatchLiteral(input, pos, lit) ==
    /\ pos + Len(lit) - 1 <= Len(input)
    /\ SubSeq(input, pos, pos + Len(lit) - 1) = lit

IsSpaceChar(c) == c \in {" ", "\t", "\r"}

\* SkipSpace: the position of the first character that is no space, or 0
\* when a newline is met (Sscanf does not treat newlines as space).
RECURSIVE SkipSpace(_, _)
SkipSpace(input, pos) ==
    IF pos > Len(input) THEN pos
    ELSE IF input[pos] = "\n" THEN 0
    ELSE IF IsSpaceChar(input[pos]) THEN SkipSpace(input, pos + 1)
    ELSE pos

\* The end (exclusive) of the run of digits starting at pos.
RECURSIVE DigitsEnd(_, _)
DigitsEnd(input, pos) ==
    IF pos <= Len(input) /\ IsDigit(input[pos])
    THEN DigitsEnd(input, pos + 1) ELSE pos

\* The verb %d: scanInt (signed) or scanUint. Leading space is skipped, a
\* signed operand accepts one sign, at least one digit is required, and the
\* token must fit the operand's width. What follows the digits is left unread.
ScanNumber(input, pos, bitSize, signed) ==
    LET p1 == SkipSpace(input, pos)
        hasSign == /\ signed
                   /\ p1 # 0 /\ p1 <= Len(input)
                   /\ input[p1] \in {"+", "-"}
        p2 == IF hasSign THEN p1 + 1 ELSE p1
        p3 == IF p1 = 0 THEN 0 ELSE DigitsEnd(input, p2)
        ds == IF p3 > p2
              THEN [i \in 1..(p3 - p2) |-> DigitVal(input[p2 + i - 1])]
              ELSE <<>>
        neg == hasSign /\ input[p1] = "-"
        fail == [ok |-> FALSE, val |-> 0, next |-> 0]
    IN  IF p1 = 0 \/ p1 > Len(input) THEN fail
        ELSE IF p3 = p2 THEN fail
        ELSE IF ~FitsBits(ds, bitSize, signed) THEN fail
        ELSE [ok |-> TRUE,
              val |-> IF neg THEN 0 - DigitsValue(ds) ELSE DigitsValue(ds),
              next |-> p3]

\* fmt.Sscanf(vals[2], "v=%d", &version) with version an int.
ScanVersion(seg) ==
    IF ~MatchLiteral(seg, 1, <<"v", "=">>) THEN [ok |-> FALSE, val |-> 0]
    ELSE LET n == ScanNumber(seg, 3, 64, TRUE)
         IN  [ok |-> n.ok, val |-> n.val]

\* fmt.Sscanf(vals[3], "m=%d,t=%d,p=%d", &p.Memory, &p.Iterations,
\* &p.Parallelism) with uint32, uint32 and uint8 operands.
ScanParams(seg) ==
    LET fail == [ok |-> FALSE, m |-> 0, t |-> 0, p |-> 0]
    IN  IF ~MatchLiteral(seg, 1, <<"m", "=">>) THEN fail
        ELSE LET m == ScanNumber(seg, 3, 32, FALSE)
             IN  IF ~m.ok THEN fail
                 ELSE IF ~MatchLiteral(seg, m.next, <<",", "t", "=">>)
                 THEN fail
                 ELSE LET t == ScanNumber(seg, m.next + 3, 32, FALSE)
                      IN  IF ~t.ok THEN fail
                          ELSE IF ~MatchLiteral(seg, t.next,
                                                <<",", "p", "=">>)
                          THEN fail
                          ELSE LET p == ScanNumber(seg, t.next + 3, 8, FALSE)
                               IN  IF ~p.ok THEN fail
                                   ELSE [ok |-> TRUE, m |-> m.val,
                                         t |-> t.val, p |-> p.val]

---------------------------------------------------------------------------
(* strings.Split(s, "$").                                                  *)

\* Position of the first sep at or after pos, 0 when there is none.
RECURSIVE IndexFrom(_, _, _)
IndexFrom(s, sep, pos) ==
    IF pos > Len(s) THEN 0
    ELSE IF s[pos] = sep THEN pos
    ELSE IndexFrom(s, sep, pos + 1)

RECURSIVE Split(_, _)
Split(s, sep) ==
    LET i == IndexFrom(s, sep, 1)
    IN  IF i = 0 THEN <<s>>
        ELSE <<SubSeq(s, 1, i - 1)>> \o Split(SubSeq(s, i + 1, Len(s)), sep)

---------------------------------------------------------------------------
(* base64.RawStdEncoding.                                                  *)

B64Chars ==
    <<"A", "B", "C", "D", "E", "F", "G", "H", "I", "J", "K", "L", "M",
      "N", "O", "P", "Q", "R", "S", "T", "U", "V", "W", "X", "Y", "Z",
      "a", "b", "c", "d", "e", "f", "g", "h", "i", "j", "k", "l", "m",
      "n", "o", "p", "q", "r", "s", "t", "u", "v", "w", "x", "y", "z",
      "0", "1", "2", "3", "4", "5", "6", "7", "8", "9", "+", "/">>

IsB64Char(c) == \E i \in 1..64 : B64Chars[i] = c

B64Val(c) == (CHOOSE i \in 1..64 : B64Chars[i] = c) - 1

\* EncodeToString: three bytes make four characters; a rest of one or two
\* bytes makes two or three characters, and no padding is written.
RECURSIVE EncodeToString(_)
EncodeToString(b) ==
    IF Len(b) = 0 THEN <<>>
    ELSE IF Len(b) = 1 THEN
        <<B64Chars[(b[1] \div 4) + 1], B64Chars[((b[1] % 4) * 16) + 1]>>
    ELSE IF Len(b) = 2 THEN
        <<B64Chars[(b[1] \div 4) + 1],
          B64Chars[((b[1] % 4) * 16 + (b[2] \div 16)) + 1],
          B64Chars[((b[2] % 16) * 4) + 1]>>
    ELSE
        <<B64Chars[(b[1] \div 4) + 1],
          B64Chars[((b[1] % 4) * 16 + (b[2] \div 16)) + 1],
          B64Chars[((b[2] % 16) * 4 + (b[3] \div 64)) + 1],
          B64Chars[(b[3] % 64) + 1]>>
        \o EncodeToString(SubSeq(b, 4, Len(b)))

\* The decoder ignores carriage returns and newlines.
RECURSIVE DropNewlines(_)
DropNewlines(s) ==
    IF s = <<>> THEN <<>>
    ELSE IF s[1] \in {"\r", "\n"} THEN DropNewlines(Tail(s))
    ELSE <<s[1]>> \o DropNewlines(Tail(s))

\* The bytes of a run of alphabet characters, quantum by quantum. A last
\* quantum of two or three characters gives one or two bytes (its unused
\* low bits are not checked: the encoding is not strict).
RECURSIVE DecodeQuanta(_)
DecodeQuanta(v) ==
    IF Len(v) < 2 THEN <<>>
    ELSE IF Len(v) = 2 THEN
        <<v[1] * 4 + (v[2] \div 16)>>
    ELSE IF Len(v) = 3 THEN
        <<v[1] * 4 + (v[2] \div 16), (v[2] % 16) * 16 + (v[3] \div 4)>>
    ELSE
        <<v[1] * 4 + (v[2] \div 16), (v[2] % 16) * 16 + (v[3] \div 4),
          (v[3] % 4) * 64 + v[4]>>
        \o DecodeQuanta(SubSeq(v, 5, Len(v)))

\* DecodeString: a character outside the alphabet (the padding character
\* included) or a last quantum of a single character is a CorruptInputError.
DecodeString(s) ==
    LET t == DropNewlines(s)
    IN  IF \E i \in 1..Len(t) : ~IsB64Char(t[i])
        THEN [bytes |-> <<>>, err |-> ErrCorruptInput]
        ELSE IF Len(t) % 4 = 1
        THEN [bytes |-> <<>>, err |-> ErrCorruptInput]
        ELSE [bytes |-> DecodeQuanta([i \in 1..Len(t) |-> B64Val(t[i])]),
              err |-> ErrNil]

---------------------------------------------------------------------------
(* The external key-derivation function, golang.org/x/crypto/argon2.       *)
(* argon2.Key is the Argon2i variant and argon2.IDKey the Argon2id one.    *)
(* The package calls it as a black box; the model keeps what the callers   *)
(* can observe: it is deterministic, it returns keyLen bytes, it tells     *)
(* passwords apart for fixed salt and costs, and it panics on a number of  *)
(* passes or of lanes below 1 and on an output length of 0.                *)

\* The passwords of the model, as []byte(password).
Passwords == {<<>>, <<97>>, <<98>>}

RECURSIVE SumBytes(_)
SumBytes(b) == IF b = <<>> THEN 0 ELSE b[1] + SumBytes(Tail(b))

\* A number that tells the model's passwords apart.
PwCode(pw) == IF pw = <<>> THEN 0 ELSE pw[1] + Len(pw)

KDFPanics(time, threads, keyLen) == time < 1 \/ threads < 1 \/ keyLen < 1

KDF(variant, pw, kdfSalt, time, memory, threads, keyLen) ==
    LET mix == (IF variant = "Key" THEN 101 ELSE 0) + 7 * SumBytes(kdfSalt)
               + 3 * Len(kdfSalt) + 5 * time + 11 * (memory % 251)
               + 13 * threads + 17 * keyLen
    IN  [i \in 1..keyLen |-> (PwCode(pw) + mix + 29 * (i - 1)) % 256]

\* One invocation, as the caller makes it.
KDFCall(variant, pw, kdfSalt, p) ==
    [variant |-> variant, password |-> pw, salt |-> kdfSalt,
     time |-> p.Iterations, memory |-> p.Memory,
     threads |-> p.Parallelism, keyLen |-> p.KeyLength]

KDFResult(c) ==
    KDF(c.variant, c.password, c.salt, c.time, c.memory, c.threads, c.keyLen)

---------------------------------------------------------------------------
(* DefaultParams, Hash, HashWithParams.                                    *)

DefaultParams(ncpu) ==
    LET p == ToUint8(ncpu)
    IN  [Memory |-> DefaultMemory,
         Iterations |-> DefaultIterations,
         Parallelism |-> IF p > DefaultParallelism
                         THEN DefaultParallelism ELSE p,
         SaltLength |-> DefaultSaltLength,
         KeyLength |-> DefaultKeyLength,
         Mode |-> ModeArgon2id]

\* Every mode but argon2i resolved to argon2id.
ResolveModeFallback(mode) ==
    IF mode = ModeArgon2i THEN mode ELSE ModeArgon2id

\* mode := p.Mode; if mode == "" { mode = ModeArgon2id }
ResolveMode(mode) == IF mode = <<>> THEN ModeArgon2id ELSE mode

\* The variant the switch on the resolved mode selects, "" for its default.
Variant(mode) ==
    IF mode = ModeArgon2i THEN "Key"
    ELSE IF mode = ModeArgon2id THEN "IDKey"
    ELSE ""

\* The operands p.Memory and p.Iterations given to Sprintf in the other order.
EncodeSwapped(mode, p, saltBytes, hashBytes) ==
    <<"$">> \o mode
    \o <<"$", "v", "=">> \o FormatUint(Version)
    \o <<"$", "m", "=">> \o FormatUint(p.Iterations)
    \o <<",", "t", "=">> \o FormatUint(p.Memory)
    \o <<",", "p", "=">> \o FormatUint(p.Parallelism)
    \o <<"$">> \o EncodeToString(saltBytes)
    \o <<"$">> \o EncodeToString(hashBytes)

\* fmt.Sprintf("$%s$v=%d$m=%d,t=%d,p=%d$%s$%s", mode, argon2.Version,
\*             p.Memory, p.Iterations, p.Parallelism, b64Salt, b64Hash)
Encode(mode, p, saltBytes, hashBytes) ==
    <<"$">> \o mode
    \o <<"$", "v", "=">> \o FormatUint(Version)
    \o <<"$", "m", "=">> \o FormatUint(p.Memory)
    \o <<",", "t", "=">> \o FormatUint(p.Iterations)
    \o <<",", "p", "=">> \o FormatUint(p.Parallelism)
    \o <<"$">> \o EncodeToString(saltBytes)
    \o <<"$">> \o EncodeToString(hashBytes)

\* rnd is what rand.Read does to the salt buffer: [failed, bytes].
HashWithParams(pw, p, rnd) ==
    LET mode == ResolveMode(p.Mode)
        call == KDFCall(Variant(mode), pw, rnd.bytes, p)
        done(e, pan, s, h, enc, calls, tr) ==
            [encoded |-> enc, err |-> e, panicked |-> pan, salt |-> s,
             hash |-> h, kdfCalls |-> calls, trace |-> tr]
    IN  IF rnd.failed
        THEN done(ErrRand, FALSE, <<>>, <<>>, <<>>, <<>>, <<"rand.Read">>)
        ELSE IF Variant(mode) = ""
        THEN done(ErrUnsupportedMode, FALSE, rnd.bytes, <<>>, <<>>, <<>>,
                  <<"rand.Read">>)
        ELSE IF KDFPanics(call.time, call.threads, call.keyLen)
        THEN done(ErrNil, TRUE, rnd.bytes, <<>>, <<>>, <<call>>,
                  <<"rand.Read", "kdf">>)
        ELSE done(ErrNil, FALSE, rnd.bytes, KDFResult(call),
                  Encode(mode, p, rnd.bytes, KDFResult(call)), <<call>>,
                  <<"rand.Read", "kdf", "encode">>)

Hash(pw, ncpu, rnd) == HashWithParams(pw, DefaultParams(ncpu), rnd)

---------------------------------------------------------------------------
(* decodeHash and Verify.                                                  *)

\* Another version reported as a format error.
VersionErrorFolded(seg) ==
    LET v == ScanVersion(seg)
    IN  IF ~v.ok \/ v.val # Version THEN ErrInvalidHash ELSE ErrNil

\* Sscanf of the version segment, then the comparison with argon2.Version.
VersionError(seg) ==
    LET v == ScanVersion(seg)
    IN  IF ~v.ok THEN ErrInvalidHash
        ELSE IF v.val # Version THEN ErrIncompatibleVersion
        ELSE ErrNil

\* A test of the family name alone, which lets argon2d through.
ModeErrorFamilyOnly(mode) ==
    IF Len(mode) >= 6 /\ SubSeq(mode, 1, 6) = SubSeq(ModeArgon2i, 1, 6)
    THEN ErrNil ELSE ErrUnsupportedMode

\* if mode != ModeArgon2id && mode != ModeArgon2i
ModeError(mode) ==
    IF mode # ModeArgon2id /\ mode # ModeArgon2i
    THEN ErrUnsupportedMode ELSE ErrNil

\* Sscanf of the parameter segment, then the validation of its values.
ParamsError(sp) ==
    IF ~sp.ok THEN ErrInvalidHash
    ELSE IF sp.m < 1 \/ sp.t < 1 \/ sp.p < 1 THEN ErrInvalidHash
    ELSE ErrNil

\* A segment count tested with < in place of !=.
HeaderErrorAtLeastSix(vals) ==
    IF Len(vals) < 6 THEN ErrInvalidHash
    ELSE IF VersionError(vals[3]) # ErrNil THEN VersionError(vals[3])
    ELSE IF ModeError(vals[2]) # ErrNil THEN ModeError(vals[2])
    ELSE ParamsError(ScanParams(vals[4]))

\* The checks of decodeHash that precede the payload, in the code's order;
\* vals is the result of the split.
HeaderError(vals) ==
    IF Len(vals) # 6 THEN ErrInvalidHash
    ELSE IF VersionError(vals[3]) # ErrNil THEN VersionError(vals[3])
    ELSE IF ModeError(vals[2]) # ErrNil THEN ModeError(vals[2])
    ELSE ParamsError(ScanParams(vals[4]))

\* A base64 failure reported as ErrInvalidHash.
DecodePayloadFolded(vals) ==
    LET s == DecodeString(vals[5])
        h == DecodeString(vals[6])
    IN  IF s.err # ErrNil \/ h.err # ErrNil
        THEN [salt |-> <<>>, hash |-> <<>>, err |-> ErrInvalidHash]
        ELSE [salt |-> s.bytes, hash |-> h.bytes, err |-> ErrNil]

\* The salt and the key of a string whose header is sound.
DecodePayload(vals) ==
    LET s == DecodeString(vals[5])
        h == DecodeString(vals[6])
    IN  IF s.err # ErrNil
        THEN [salt |-> <<>>, hash |-> <<>>, err |-> s.err]
        ELSE IF h.err # ErrNil
        THEN [salt |-> <<>>, hash |-> <<>>, err |-> h.err]
        ELSE [salt |-> s.bytes, hash |-> h.bytes, err |-> ErrNil]

decodeHash(encodedHash) ==
    LET vals == Split(encodedHash, "$")
        failed(e) ==
            [p |-> NilParams, salt |-> <<>>, hash |-> <<>>, err |-> e]
    IN  IF HeaderError(vals) # ErrNil THEN failed(HeaderError(vals))
        ELSE LET sp == ScanParams(vals[4])
                 pl == DecodePayload(vals)
             IN  IF pl.err # ErrNil THEN failed(pl.err)
                 ELSE [p |-> [Memory |-> sp.m, Iterations |-> sp.t,
                              Parallelism |-> sp.p,
                              SaltLength |-> Len(pl.salt),
                              KeyLength |-> Len(pl.hash),
                              Mode |-> vals[2]],
                       salt |-> pl.salt, hash |-> pl.hash, err |-> ErrNil]

\* A loop that leaves at the first differing byte.
RECURSIVE ShortCircuitLoop(_, _, _, _)
ShortCircuitLoop(x, y, i, st) ==
    IF i > Len(x) \/ st.differ THEN st
    ELSE ShortCircuitLoop(x, y, i + 1,
                          [differ |-> x[i] # y[i],
                           examined |-> st.examined + 1])

\* for i := 0; i < len(x); i++ { v |= x[i] ^ y[i] }
\* v is kept as "some byte differed"; examined counts the positions read.
RECURSIVE CompareLoop(_, _, _, _)
CompareLoop(x, y, i, st) ==
    IF i > Len(x) THEN st
    ELSE CompareLoop(x, y, i + 1,
                     [differ |-> st.differ \/ x[i] # y[i],
                      examined |-> st.examined + 1])

\* subtle.ConstantTimeCompare with the positions it read: the lengths are
\* compared first, then every position of equal-length slices.
CompareSteps(x, y) ==
    IF Len(x) # Len(y) THEN [result |-> 0, examined |-> 0]
    ELSE LET st == CompareLoop(x, y, 1, [differ |-> FALSE, examined |-> 0])
         IN  [result |-> IF st.differ THEN 0 ELSE 1,
              examined |-> st.examined]

\* subtle.ConstantTimeCompare: 1 when the slices have equal length and
\* equal contents, 0 otherwise.
ConstantTimeCompare(x, y) == CompareSteps(x, y).result

\* if subtle.ConstantTimeCompare(hash, otherHash) == 1 { return true, nil }
\* return false, nil
CompareKeys(decodedKey, otherHash) ==
    [matched |-> ConstantTimeCompare(decodedKey, otherHash) = 1,
     err |-> ErrNil,
     examined |-> CompareSteps(decodedKey, otherHash).examined]

\* A decode error returned with no error at all.
VerifyDecodeFailedSwallowed(d) ==
    [matched |-> FALSE, err |-> ErrNil, panicked |-> FALSE,
     kdfCalls |-> <<>>, trace |-> <<"decodeHash">>, examined |-> 0]

\* A decode error noticed only after the KDF has run.
VerifyDecodeFailedAfterKDF(d) ==
    [matched |-> FALSE, err |-> d.err, panicked |-> FALSE,
     kdfCalls |-> <<KDFCall("IDKey", <<>>, d.salt, d.p)>>,
     trace |-> <<"decodeHash", "kdf">>, examined |-> 0]

\* if err != nil { return false, err }
VerifyDecodeFailed(d) ==
    [matched |-> FALSE, err |-> d.err, panicked |-> FALSE,
     kdfCalls |-> <<>>, trace |-> <<"decodeHash">>, examined |-> 0]

\* What Verify returns for the result d of decodeHash.
VerifyDecoded(pw, d) ==
    LET mode == ResolveMode(d.p.Mode)
        call == KDFCall(Variant(mode), pw, d.salt, d.p)
        cmp == CompareKeys(d.hash, KDFResult(call))
        done(m, e, pan, calls, tr, n) ==
            [matched |-> m, err |-> e, panicked |-> pan,
             kdfCalls |-> calls, trace |-> tr, examined |-> n]
    IN  IF d.err # ErrNil
        THEN VerifyDecodeFailed(d)
        ELSE IF Variant(mode) = ""
        THEN done(FALSE, ErrUnsupportedMode, FALSE, <<>>, <<"decodeHash">>,
                  0)
        ELSE IF KDFPanics(call.time, call.threads, call.keyLen)
        THEN done(FALSE, ErrNil, TRUE, <<call>>, <<"decodeHash", "kdf">>, 0)
        ELSE done(cmp.matched, cmp.err, FALSE, <<call>>,
                  <<"decodeHash", "kdf", "compare">>, cmp.examined)

Verify(pw, encodedHash) == VerifyDecoded(pw, decodeHash(encodedHash))

---------------------------------------------------------------------------
(* The inputs of the model.                                                *)

\* runtime.NumCPU() values: few cores, many cores, and counts at and
\* beyond the range of a uint8.
NumCPUs == {1, 2, 3, 4, 5, 8, 64, 255, 256, 257, 260, 512}

\* The bytes rand.Read writes are drawn from these.
SaltBytes == {0, 255}

\* What rand.Read can leave in a buffer of n bytes: every sequence over
\* SaltBytes for the lengths within the bound, the uniform ones beyond it.
RandomSalts(n) ==
    IF n <= MaxSaltLen + 1 THEN [1..n -> SaltBytes]
    ELSE {[i \in 1..n |-> b] : b \in SaltBytes}

\* The outcomes of rand.Read on a buffer of n bytes.
RandOutcomes(n) ==
    {[failed |-> FALSE, bytes |-> b] : b \in RandomSalts(n)}
    \cup {[failed |-> TRUE, bytes |-> [i \in 1..n |-> 0]]}

\* Mode fields a caller may set: unset, the two constants, another string.
ModeValues ==
    {<<>>,
     <<"a", "r", "g", "o", "n", "2", "i", "d">>,
     <<"a", "r", "g", "o", "n", "2", "i">>,
     <<"a", "r", "g", "o", "n", "2", "d">>}

\* The Params a caller passes to HashWithParams. Nothing restricts the
\* fields: zero costs and zero lengths are among them.
CallerParams ==
    [Memory : 0..MaxCost, Iterations : 0..MaxCost, Parallelism : 0..MaxCost,
     SaltLength : 0..MaxSaltLen, KeyLength : 0..MaxKeyLen, Mode : ModeValues]

\* Mode segments of the strings handed to Verify.
ModeSegs ==
    {<<"a", "r", "g", "o", "n", "2", "i", "d">>,
     <<"a", "r", "g", "o", "n", "2", "i">>,
     <<"a", "r", "g", "o", "n", "2", "d">>,
     <<>>}

\* Version segments.
VersionSegs ==
    {<<"v", "=", "1", "9">>,
     <<"v", "=", "1", "8">>,
     <<"v", "=", "1", "9", "x">>,
     <<"v", "=">>,
     <<"x", "=", "1", "9">>,
     <<"v", "=", " ", "1", "9">>,
     <<"v", "=", "+", "1", "9">>,
     <<"1", "9">>}

\* Parameter segments.
ParamSegs ==
    {<<"m", "=", "1", ",", "t", "=", "1", ",", "p", "=", "1">>,
     <<"m", "=", "6", "5", "5", "3", "6", ",", "t", "=", "2", ",", "p", "=", "4">>,
     <<"m", "=", "0", ",", "t", "=", "1", ",", "p", "=", "1">>,
     <<"m", "=", "1", ",", "t", "=", "0", ",", "p", "=", "1">>,
     <<"m", "=", "1", ",", "t", "=", "1", ",", "p", "=", "0">>,
     <<"m", "=", "1", ",", "t", "=", "1">>,
     <<"t", "=", "1", ",", "m", "=", "1", ",", "p", "=", "1">>,
     <<"m", "=", "1", ",", "t", "=", "1", ",", "p", "=", "2", "5", "6">>,
     <<"m", "=", "1", ",", "t", "=", "1", ",", "p", "=", "1", "x">>,
     <<"m", "=", "4", "2", "9", "4", "9", "6", "7", "2", "9", "6", ",", "t", "=", "1", ",", "p", "=", "1">>,
     <<"m", "=", " ", "1", ",", "t", "=", "1", ",", "p", "=", "0", "1">>,
     <<>>}

\* Salt segments: empty, one byte, a lone character, a character outside
\* the alphabet, and a newline inside the text.
SaltSegs ==
    {<<>>,
     <<"A", "A">>,
     <<"A">>,
     <<"A", "!">>,
     <<"A", "\n", "A">>}

\* Key segments: empty, one and three bytes, a character outside the
\* alphabet, and padding.
KeySegs ==
    {<<>>,
     <<"A", "A">>,
     <<"A", "A", "A", "/">>,
     <<"A", "!">>,
     <<"A", "A", "=", "=">>}

RECURSIVE Join(_, _)
Join(segs, sep) ==
    IF Len(segs) = 0 THEN <<>>
    ELSE IF Len(segs) = 1 THEN segs[1]
    ELSE segs[1] \o <<sep>> \o Join(Tail(segs), sep)

\* Strings with six segments, the first one empty.
SixSegments ==
    {Join(<<<<>>, mo, ve, pa, sa, ke>>, "$") :
        mo \in ModeSegs, ve \in VersionSegs, pa \in ParamSegs,
        sa \in SaltSegs, ke \in KeySegs}

\* Strings with another number of segments, the empty string among them,
\* and a six-segment string whose first segment is not empty.
OtherShapes ==
    LET good == <<<<>>, ModeArgon2id, <<"v", "=", "1", "9">>,
                  <<"m", "=", "1", ",", "t", "=", "1", ",", "p", "=", "1">>,
                  <<"A", "A">>, <<"A", "A">>>>
    IN  {<<>>, <<"x">>, <<"$">>,
         Join(SubSeq(good, 1, 5), "$"),
         Join(good \o <<<<>>>>, "$"),
         Join(good \o <<<<"A", "A">>>>, "$"),
         Join(<<<<"x">>>> \o Tail(good), "$")}

\* Strings that HashWithParams returned.
Genuine ==
    {HashWithParams(pw, [Memory |-> 1, Iterations |-> 1, Parallelism |-> 1,
                         SaltLength |-> 1, KeyLength |-> 2, Mode |-> mo],
                    [failed |-> FALSE, bytes |-> <<255>>]).encoded :
        pw \in Passwords, mo \in {ModeArgon2id, ModeArgon2i}}

Crafted == SixSegments \cup OtherShapes \cup Genuine

---------------------------------------------------------------------------
(* The state machine. The package keeps no state between calls, and what   *)
(* a call returns depends on its arguments alone. The model is a caller    *)
(* that makes one call of DefaultParams, Hash or HashWithParams and then   *)
(* verifies passwords against the string in hand; op is its position and   *)
(* the other variables record the calls it made.                           *)

NoDecode == [p |-> NilParams, salt |-> <<>>, hash |-> <<>>, err |-> ErrNil]

Fresh(enc) ==
    /\ op = "none"
    /\ numCPU = 0
    /\ password = <<>>
    /\ params = NilParams
    /\ salt = <<>>
    /\ hash = <<>>
    /\ encoded = enc
    /\ candidate = <<>>
    /\ decoded = NoDecode
    /\ matched = FALSE
    /\ err = ErrNil
    /\ panicked = FALSE
    /\ kdfCalls = <<>>
    /\ trace = <<>>
    /\ examined = 0

Init == Fresh(<<>>)

\* p := DefaultParams()
DoDefaultParams ==
    \E n \in NumCPUs :
        /\ op = "none"
        /\ op' = "DefaultParams"
        /\ numCPU' = n
        /\ params' = DefaultParams(n)
        /\ password' = <<>>
        /\ salt' = <<>>
        /\ hash' = <<>>
        /\ encoded' = <<>>
        /\ candidate' = <<>>
        /\ decoded' = NoDecode
        /\ matched' = FALSE
        /\ err' = ErrNil
        /\ panicked' = FALSE
        /\ kdfCalls' = <<>>
        /\ trace' = <<>>
        /\ examined' = 0

\* The record of a hashing call with result r.
Hashed(name, n, pw, p, r) ==
    /\ op' = name
    /\ numCPU' = n
    /\ password' = pw
    /\ params' = p
    /\ salt' = r.salt
    /\ hash' = r.hash
    /\ encoded' = r.encoded
    /\ candidate' = <<>>
    /\ decoded' = NoDecode
    /\ matched' = FALSE
    /\ err' = r.err
    /\ panicked' = r.panicked
    /\ kdfCalls' = r.kdfCalls
    /\ trace' = r.trace
    /\ examined' = 0

\* encoded, err := Hash(password)
DoHash ==
    /\ op = "none"
    /\ \E pw \in Passwords, n \in NumCPUs :
           \E rnd \in RandOutcomes(DefaultParams(n).SaltLength) :
               \E r \in {Hash(pw, n, rnd)} :
                   Hashed("Hash", n, pw, DefaultParams(n), r)

\* encoded, err := HashWithParams(password, p)
DoHashWithParams ==
    /\ op = "none"
    /\ \E pw \in Passwords, p \in CallerParams :
           \E rnd \in RandOutcomes(p.SaltLength) :
               \E r \in {HashWithParams(pw, p, rnd)} :
                   Hashed("HashWithParams", 0, pw, p, r)

\* matched, err := Verify(candidate, encoded)
DoVerify ==
    \E pw \in Passwords :
        /\ op' = "Verify"
        /\ candidate' = pw
        /\ decoded' = decodeHash(encoded)
        /\ \E r \in {VerifyDecoded(pw, decoded')} :
               /\ matched' = r.matched
               /\ err' = r.err
               /\ panicked' = r.panicked
               /\ kdfCalls' = r.kdfCalls
               /\ trace' = r.trace
               /\ examined' = r.examined
        /\ UNCHANGED <<numCPU, password, params, salt, hash, encoded>>

Next == DoHashWithParams \/ DoHash \/ DoDefaultParams \/ DoVerify

Spec == Init /\ [][Next]_vars

\* Verify on strings that come from storage: malformed, tampered and
\* genuine ones.
InitDecode == \E enc \in Crafted : Fresh(enc)

NextDecode == DoVerify

SpecDecode == InitDecode /\ [][NextDecode]_vars

\* The encoder followed by the decoder, on parameters, salts and keys of
\* any content.
CodecBytes == {0, 77, 255}

BytesUpTo(n) == UNION {[1..k -> CodecBytes] : k \in 0..n}

CodecParams ==
    [Memory : {1, 65536}, Iterations : {1, 10}, Parallelism : {1, 255},
     SaltLength : {0}, KeyLength : {0}, Mode : {ModeArgon2id, ModeArgon2i}]

InitCodec ==
    \E p \in CodecParams, s \in BytesUpTo(MaxSaltLen),
       k \in BytesUpTo(MaxKeyLen + 1) :
        /\ op = "none"
        /\ numCPU = 0
        /\ password = <<>>
        /\ params = [p EXCEPT !.SaltLength = Len(s), !.KeyLength = Len(k)]
        /\ salt = s
        /\ hash = k
        /\ encoded = <<>>
        /\ candidate = <<>>
        /\ decoded = NoDecode
        /\ matched = FALSE
        /\ err = ErrNil
        /\ panicked = FALSE
        /\ kdfCalls = <<>>
        /\ trace = <<>>
        /\ examined = 0

\* encoded := the string HashWithParams formats from params, salt and hash;
\* decoded := decodeHash(encoded)
DoRoundTrip ==
    /\ op = "none"
    /\ op' = "roundtrip"
    /\ encoded' = Encode(ResolveMode(params.Mode), params, salt, hash)
    /\ decoded' = decodeHash(encoded')
    /\ err' = decoded'.err
    /\ UNCHANGED <<numCPU, password, params, salt, hash, candidate, matched,
                   panicked, kdfCalls, trace, examined>>

NextCodec == DoRoundTrip

SpecCodec == InitCodec /\ [][NextCodec]_vars

\* The last step of Verify on its own: the decoded key against a recomputed
\* key (otherHash, kept in hash) of any content and any length.
InitCompare ==
    \E k \in BytesUpTo(MaxKeyLen), other \in BytesUpTo(MaxKeyLen) :
        /\ op = "none"
        /\ numCPU = 0
        /\ password = <<>>
        /\ params = NilParams
        /\ salt = <<>>
        /\ hash = other
        /\ encoded = <<>>
        /\ candidate = <<>>
        /\ decoded = [NoDecode EXCEPT !.hash = k]
        /\ matched = FALSE
        /\ err = ErrNil
        /\ panicked = FALSE
        /\ kdfCalls = <<>>
        /\ trace = <<>>
        /\ examined = 0

\* matched, err := the result of comparing decoded.hash with otherHash
DoCompare ==
    /\ op = "none"
    /\ op' = "compare"
    /\ \E r \in {CompareKeys(decoded.hash, hash)} :
           /\ matched' = r.matched
           /\ err' = r.err
           /\ examined' = r.examined
    /\ trace' = <<"compare">>
    /\ UNCHANGED <<numCPU, password, params, salt, hash, encoded, candidate,
                   decoded, panicked, kdfCalls>>

NextCompare == DoCompare

SpecCompare == InitCompare /\ [][NextCompare]_vars

---------------------------------------------------------------------------
(* Properties.                                                             *)

\* The segments of the string in hand, counted by its delimiters.
RECURSIVE CountChar(_, _)
CountChar(s, c) ==
    IF s = <<>> THEN 0
    ELSE (IF s[1] = c THEN 1 ELSE 0) + CountChar(Tail(s), c)

SixSegs == CountChar(encoded, "$") = 5

Seg(i) == Split(encoded, "$")[i]

SupportedModeSeg == Seg(2) = ModeArgon2id \/ Seg(2) = ModeArgon2i

Version19Seg == ScanVersion(Seg(3)).ok /\ ScanVersion(Seg(3)).val = Version

\* Six segments, a supported mode, version 19 and m, t, p all at least 1.
SoundHeader ==
    /\ SixSegs
    /\ SupportedModeSeg
    /\ Version19Seg
    /\ ScanParams(Seg(4)).ok
    /\ ScanParams(Seg(4)).m >= 1
    /\ ScanParams(Seg(4)).t >= 1
    /\ ScanParams(Seg(4)).p >= 1

\* C1: Verify never returns matched = true together with an error, and
\* whenever decodeHash fails, whatever the error, Verify returns
\* matched = false together with that very error.
C1_NoMatchWithError ==
    op = "Verify" =>
        /\ ~(matched /\ err # ErrNil)
        /\ decoded.err # ErrNil => (~matched /\ err = decoded.err)

C1_Witness ==
    /\ op = "Verify"
    /\ decoded.err = ErrIncompatibleVersion
    /\ err = ErrIncompatibleVersion
    /\ ~matched

\* C2: whenever a hashing call returned a string, Verify on that
\* string returns (true, nil) for the password that was hashed and
\* (false, nil) for every other password.
C2_HashThenVerify ==
    (op = "Verify" /\ encoded # <<>>) =>
        /\ ~panicked
        /\ err = ErrNil
        /\ matched = (candidate = password)

\* C3: decoding the string the encoder made from valid parameters, a salt
\* and a key succeeds and gives back the mode, memoryCost, iterations,
\* parallelism, the salt bytes and the key bytes, with saltLength and
\* keyLength the numbers of bytes of the decoded salt and key.
C3_RoundTrip ==
    op = "roundtrip" =>
        /\ decoded.err = ErrNil
        /\ decoded.p.Mode = params.Mode
        /\ decoded.p.Memory = params.Memory
        /\ decoded.p.Iterations = params.Iterations
        /\ decoded.p.Parallelism = params.Parallelism
        /\ decoded.salt = salt
        /\ decoded.hash = hash
        /\ decoded.p.SaltLength = Len(decoded.salt)
        /\ decoded.p.KeyLength = Len(decoded.hash)

C3_Witness ==
    /\ op = "roundtrip"
    /\ params.Memory = DefaultMemory
    /\ params.Parallelism = 255
    /\ params.Mode = ModeArgon2i
    /\ salt = <<77, 255>>
    /\ decoded.hash = <<255, 0, 77>>

ValidatedCall(c) == c.memory >= 1 /\ c.time >= 1 /\ c.threads >= 1

\* C4: in every call of Hash, HashWithParams and Verify, every
\* invocation of the KDF has memoryCost, iterations and parallelism all at
\* least 1.
C4_ValidatedCalls ==
    \A i \in 1..Len(kdfCalls) : ValidatedCall(kdfCalls[i])

\* C5 as stated: a string of six segments whose mode segment is neither
\* argon2id nor argon2i fails to decode with ErrUnsupportedMode, whatever
\* its other segments hold.
C5_Original ==
    (op = "Verify" /\ SixSegs /\ ~SupportedModeSeg) =>
        decoded.err = ErrUnsupportedMode

\* C5 amended: a string of six segments whose version segment reads as
\* version 19 and whose mode segment is neither argon2id nor argon2i fails
\* to decode with ErrUnsupportedMode, whatever its parameter, salt and key
\* segments hold (the version segment is examined before the mode).
C5_UnsupportedMode ==
    (op = "Verify" /\ SixSegs /\ Version19Seg /\ ~SupportedModeSeg) =>
        /\ decoded.err = ErrUnsupportedMode
        /\ err = ErrUnsupportedMode
        /\ ~matched

C5_Witness ==
    /\ op = "Verify"
    /\ SixSegs
    /\ Version19Seg
    /\ Seg(2) = <<"a", "r", "g", "o", "n", "2", "d">>
    /\ ~ScanParams(Seg(4)).ok
    /\ decoded.err = ErrUnsupportedMode

\* C6: for a string of six segments with a supported mode, a version
\* segment that Sscanf cannot read as v=<integer> makes decoding fail with
\* ErrInvalidHash, and one it reads as an integer other than 19 makes it
\* fail with ErrIncompatibleVersion, a different error, whatever the
\* remaining segments hold.
C6_VersionErrors ==
    (op = "Verify" /\ SixSegs /\ SupportedModeSeg) =>
        /\ ~ScanVersion(Seg(3)).ok => decoded.err = ErrInvalidHash
        /\ (ScanVersion(Seg(3)).ok /\ ScanVersion(Seg(3)).val # Version) =>
               (/\ decoded.err = ErrIncompatibleVersion
                /\ decoded.err # ErrInvalidHash)

C6_Witness ==
    /\ op = "Verify"
    /\ SixSegs
    /\ SupportedModeSeg
    /\ Seg(3) = <<"v", "=", "1", "8">>
    /\ ~ScanParams(Seg(4)).ok
    /\ decoded.err = ErrIncompatibleVersion

\* C7: a string that does not split into exactly six segments, the empty
\* string included, fails to decode with ErrInvalidHash; so does a string
\* with a supported mode and version 19 in which memoryCost, iterations or
\* parallelism is 0.
C7_StructuralErrors ==
    op = "Verify" =>
        /\ ~SixSegs => decoded.err = ErrInvalidHash
        /\ (/\ SixSegs
            /\ SupportedModeSeg
            /\ Version19Seg
            /\ ScanParams(Seg(4)).ok
            /\ \/ ScanParams(Seg(4)).m = 0
               \/ ScanParams(Seg(4)).t = 0
               \/ ScanParams(Seg(4)).p = 0) => decoded.err = ErrInvalidHash

C7_Witness ==
    /\ op = "Verify"
    /\ CountChar(encoded, "$") = 6
    /\ Seg(7) = <<"A", "A">>
    /\ decoded.err = ErrInvalidHash
    /\ err = ErrInvalidHash

\* A character that is not one of the 64 of the alphabet.
HasForeignChar(seg) == \E i \in 1..Len(seg) : ~IsB64Char(seg[i])

\* The same, carriage returns and newlines apart.
HasForeignCharBesidesNewline(seg) ==
    \E i \in 1..Len(seg) : ~IsB64Char(seg[i]) /\ seg[i] \notin {"\r", "\n"}

PayloadError ==
    /\ decoded.err \notin
           {ErrNil, ErrInvalidHash, ErrIncompatibleVersion,
            ErrUnsupportedMode}
    /\ err = decoded.err
    /\ ~matched

\* C8 as stated: with a sound header, a salt or key segment holding
\* anything that is not base64 makes decoding fail with an error that is
\* none of ErrInvalidHash, ErrIncompatibleVersion, ErrUnsupportedMode, and
\* Verify returns no match together with that error.
C8_Original ==
    (/\ op = "Verify"
     /\ SoundHeader
     /\ HasForeignChar(Seg(5)) \/ HasForeignChar(Seg(6))) => PayloadError

\* C8 amended: the same for a salt or key segment holding a character that
\* is neither of the base64 alphabet nor a carriage return or newline
\* (the decoder skips these two).
C8_PayloadErrors ==
    (/\ op = "Verify"
     /\ SoundHeader
     /\ \/ HasForeignCharBesidesNewline(Seg(5))
        \/ HasForeignCharBesidesNewline(Seg(6))) => PayloadError

C8_Witness ==
    /\ op = "Verify"
    /\ SoundHeader
    /\ ~HasForeignChar(Seg(5))
    /\ Seg(6) = <<"A", "A", "=", "=">>
    /\ err = ErrCorruptInput

\* C9: for every core count, narrowed to 8 bits, DefaultParams
\* returns memoryCost 65536, iterations 1, saltLength 16, keyLength 32,
\* mode argon2id and parallelism min(core count, 4) but at least 1, so
\* between 1 and 4.
C9_DefaultParams ==
    op = "DefaultParams" =>
        LET n == ToUint8(numCPU)
            capped == IF n > 4 THEN 4 ELSE n
        IN  /\ params.Memory = 65536
            /\ params.Iterations = 1
            /\ params.SaltLength = 16
            /\ params.KeyLength = 32
            /\ params.Mode = ModeArgon2id
            /\ params.Parallelism = (IF capped < 1 THEN 1 ELSE capped)
            /\ params.Parallelism \in 1..4

\* C10: mode resolution in HashWithParams, once the salt is generated.
\* With the mode unset the Argon2id variant is invoked and the string
\* returned starts with $argon2id$v=19$; with argon2i the Argon2i variant
\* is invoked and the string starts with $argon2i$v=19$; with any other
\* mode the call fails with ErrUnsupportedMode, returns no string and
\* invokes no variant.
C10_ModeResolution ==
    (op = "HashWithParams" /\ err # ErrRand) =>
        /\ params.Mode = <<>> =>
            /\ Len(kdfCalls) = 1 /\ kdfCalls[1].variant = "IDKey"
            /\ ~panicked =>
                /\ err = ErrNil
                /\ Len(encoded) >= 15
                /\ SubSeq(encoded, 1, 15) =
                       <<"$", "a", "r", "g", "o", "n", "2", "i", "d", "$",
                         "v", "=", "1", "9", "$">>
        /\ params.Mode = ModeArgon2i =>
            /\ Len(kdfCalls) = 1 /\ kdfCalls[1].variant = "Key"
            /\ ~panicked =>
                /\ err = ErrNil
                /\ Len(encoded) >= 14
                /\ SubSeq(encoded, 1, 14) =
                       <<"$", "a", "r", "g", "o", "n", "2", "i", "$",
                         "v", "=", "1", "9", "$">>
        /\ params.Mode \notin {<<>>, ModeArgon2i, ModeArgon2id} =>
            /\ err = ErrUnsupportedMode
            /\ encoded = <<>>
            /\ kdfCalls = <<>>
            /\ ~panicked

C10_Witness ==
    /\ op = "HashWithParams"
    /\ params.Mode = <<"a", "r", "g", "o", "n", "2", "d">>
    /\ params.Iterations = 1
    /\ err = ErrUnsupportedMode
    /\ encoded = <<>>


\* C11: the comparison of the decoded key with the recomputed key reads
\* every byte position of equal-length keys, wherever they first differ,
\* reports a match exactly when the keys are equal, and reports keys of
\* different lengths as no match; it never returns an error.
C11_ConstantTimeCompare ==
    op = "compare" =>
        /\ err = ErrNil
        /\ matched = (decoded.hash = hash)
        /\ (Len(decoded.hash) # Len(hash)) => ~matched
        /\ (Len(decoded.hash) = Len(hash)) => examined = Len(hash)

\* C11 witness: two keys of the same length that differ in their first
\* byte were compared to the end.
C11_Witness ==
    /\ op = "compare"
    /\ Len(decoded.hash) = MaxKeyLen
    /\ Len(hash) = MaxKeyLen
    /\ decoded.hash[1] # hash[1]
    /\ examined = MaxKeyLen
    /\ ~matched
    /\ err = ErrNil


\* A non-empty run of decimal digits.
AllDigits(s) == Len(s) >= 1 /\ \A i \in 1..Len(s) : IsDigit(s[i])

\* The text key=<digits> with a value of the given width.
ExactField(part, key, bitSize) ==
    /\ Len(part) >= 3
    /\ part[1] = key
    /\ part[2] = "="
    /\ AllDigits(SubSeq(part, 3, Len(part)))
    /\ FitsBits([i \in 1..(Len(part) - 2) |-> DigitVal(part[i + 2])],
                bitSize, FALSE)

\* The text v=<digits>, the digits possibly signed, and nothing else.
ExactVersionSeg(seg) ==
    /\ Len(seg) >= 3
    /\ SubSeq(seg, 1, 2) = <<"v", "=">>
    /\ \/ AllDigits(SubSeq(seg, 3, Len(seg)))
       \/ seg[3] \in {"+", "-"} /\ AllDigits(SubSeq(seg, 4, Len(seg)))

\* The text m=<digits>,t=<digits>,p=<digits> and nothing else, with m and t
\* of 32 bits and p of 8 bits.
ExactParamSeg(seg) ==
    LET parts == Split(seg, ",")
    IN  /\ Len(parts) = 3
        /\ ExactField(parts[1], "m", 32)
        /\ ExactField(parts[2], "t", 32)
        /\ ExactField(parts[3], "p", 8)

\* C12: a six-segment string with a supported mode whose version segment
\* is not exactly v=<integer>, or whose version is 19 and whose parameter
\* segment is not exactly m=<int>,t=<int>,p=<int>, fails to decode with
\* ErrInvalidHash.
C12_ExactFormats ==
    (/\ op = "Verify"
     /\ SixSegs
     /\ SupportedModeSeg
     /\ \/ ~ExactVersionSeg(Seg(3))
        \/ Version19Seg /\ ~ExactParamSeg(Seg(4)))
        => (decoded.err = ErrInvalidHash /\ err = ErrInvalidHash)


\* The position of step in steps, 0 when it is not there.
StepIndex(steps, step) ==
    IF \E i \in 1..Len(steps) : steps[i] = step
    THEN CHOOSE i \in 1..Len(steps) :
             steps[i] = step /\ \A j \in 1..(i - 1) : steps[j] # step
    ELSE 0

\* C13: Verify invokes the KDF at most once, after decodeHash and only
\* when decodeHash succeeded; a hashing call reads the salt before it
\* invokes the KDF, ends with the error, no KDF invocation and no string
\* when the salt cannot be read, and invokes the KDF exactly once when it
\* succeeds.
C13_StepOrder ==
    /\ op = "Verify" =>
           /\ Len(kdfCalls) <= 1
           /\ trace[1] = "decodeHash"
           /\ decoded.err # ErrNil =>
                  /\ kdfCalls = <<>>
                  /\ StepIndex(trace, "kdf") = 0
                  /\ err = decoded.err
                  /\ ~matched
           /\ kdfCalls # <<>> =>
                  /\ decoded.err = ErrNil
                  /\ StepIndex(trace, "decodeHash") < StepIndex(trace, "kdf")
    /\ op \in {"Hash", "HashWithParams"} =>
           /\ trace[1] = "rand.Read"
           /\ kdfCalls # <<>> =>
                  /\ StepIndex(trace, "kdf") > StepIndex(trace, "rand.Read")
                  /\ err # ErrRand
           /\ err = ErrRand =>
                  /\ kdfCalls = <<>>
                  /\ StepIndex(trace, "kdf") = 0
                  /\ encoded = <<>>
           /\ (err = ErrNil /\ ~panicked) =>
                  /\ Len(kdfCalls) = 1
                  /\ encoded # <<>>

\* C13 witness: Verify was given a string that a hashing call returned and
\* that does not decode, and returned the decode error with no KDF
\* invocation.
C13_Witness ==
    /\ op = "Verify"
    /\ encoded # <<>>
    /\ decoded.err # ErrNil
    /\ err = decoded.err
    /\ kdfCalls = <<>>
    /\ trace = <<"decodeHash">>


\* C14: whenever decodeHash succeeds the decoded salt and the decoded key
\* are both non-empty, Verify invokes the KDF with a non-empty salt and an
\* output length of at least 1, and a string whose salt segment or key
\* segment is empty is rejected with an error.
C14_NonEmptyPayload ==
    op = "Verify" =>
        /\ decoded.err = ErrNil =>
               /\ Len(decoded.salt) >= 1
               /\ Len(decoded.hash) >= 1
               /\ decoded.p.SaltLength >= 1
               /\ decoded.p.KeyLength >= 1
        /\ \A i \in 1..Len(kdfCalls) :
               Len(kdfCalls[i].salt) >= 1 /\ kdfCalls[i].keyLen >= 1
        /\ (SixSegs /\ (Seg(5) = <<>> \/ Seg(6) = <<>>)) =>
               (~matched /\ ~panicked /\ err # ErrNil)

=============================================================================
